---- MODULE Spec2Model ----
(***************************************************************************)
(* Model of the file watcher/mirror tool "watch" (botsphp/file-watch-copy).*)
(*                                                                         *)
(* The repository holds three variants of the same program:                *)
(*   src/watch.go          sync     + copyFile                             *)
(*   src/unnamed/part_000  syncFile + Copy   (log package)                 *)
(*   src/unnamed/part_001  syncFile + Copy   (fmt package)                 *)
(* The variable `variant` says which one is running.                       *)
(*                                                                         *)
(* Paths and file contents are sequences of one-character strings, so that *)
(* slicing (filePath[0:2]), strings.Replace, concatenation and             *)
(* filepath.Dir are computed, not assumed.  "/" stands for the platform's  *)
(* path separator.  The paths of the model hold no ".", ".." or doubled    *)
(* separators.                                                             *)
(*                                                                         *)
(* The filesystem is a map from the paths that exist to nodes; a regular   *)
(* file's node names an inode, and `data` maps the live inodes to their    *)
(* bytes, so that an open file descriptor keeps reading and writing the    *)
(* file it opened.                                                         *)
(***************************************************************************)
EXTENDS Naturals, Sequences, FiniteSets

VARIABLES
    variant,     \* which of the three source files is the program
    goos,        \* runtime.GOOS
    readerFrom,  \* toolchain: *os.File implements io.ReaderFrom (Go >= 1.15)
    halt,        \* opts.Halt
    copyDir,     \* the global copyDir ("" when mirroring is off)
    fs,          \* the filesystem: path -> node
    data,        \* inode -> bytes
    pending,     \* the time.AfterFunc timers and their running copies
    exit,        \* "none" while the process runs, else its exit status
    intr,        \* position of the interrupt goroutine
    lastOp,      \* what the last step did and how it ended
    nLoop,       \* events and errors the event loop has taken so far
    nEnv         \* changes made by the environment so far

vars == <<variant, goos, readerFrom, halt, copyDir, fs, data, pending, exit, intr, lastOp,
          nLoop, nEnv>>

(***************************************************************************)
(* Bounds of the model.                                                    *)
(***************************************************************************)
\* the event loop is followed through this many events and errors
MaxLoop == 2
\* the environment changes the trees this many times
MaxEnv == 2
\* bytes moved by one read/write round of io.Copy
ChunkSize == 3

\* bufio's default buffer size (bufio.NewWriter)
defaultBufSize == 4096

(***************************************************************************)
(* Strings.                                                                *)
(***************************************************************************)
Sep == "/"
EmptyStr == <<>>

sData == <<"d", "a", "t", "a">>
sBackup == <<"b", "a", "c", "k", "u", "p">>
sATxt == <<"a", ".", "t", "x", "t">>
sSub == <<"s", "u", "b">>

Join(a, b) == a \o <<Sep>> \o b

\* path-rooted platform
LRoot == <<Sep>>
LData == LRoot \o sData
LFile == Join(LData, sATxt)
LSub == Join(LData, sSub)
LBackup == LRoot \o sBackup
LNoDir == LRoot \o <<"n", "o", "n", "e">>

\* volume-letter platform
WSrcVol == <<"C", ":">>
WDstVol == <<"E", ":">>
WSrcRoot == WSrcVol \o <<Sep>>
WDstRoot == WDstVol \o <<Sep>>
WData == WSrcRoot \o sData
WFile == Join(WData, sATxt)
WSub == Join(WData, sSub)
WBackup == WDstRoot \o sBackup
WNoDir == WDstRoot \o <<"n", "o", "n", "e">>

Windows == "windows"
Linux == "linux"
Platforms == {Linux, Windows}

WatchRoot(os) == IF os = Windows THEN WData ELSE LData
SrcFile(os) == IF os = Windows THEN WFile ELSE LFile
SrcSub(os) == IF os = Windows THEN WSub ELSE LSub
Backup(os) == IF os = Windows THEN WBackup ELSE LBackup
NoDir(os) == IF os = Windows THEN WNoDir ELSE LNoDir
Roots(os) == IF os = Windows THEN {WSrcRoot, WDstRoot} ELSE {LRoot}
\* where the watched tree lies in the mirror directory
MirrorData(os) == Join(Backup(os), sData)
MirrorFile(os) == Join(MirrorData(os), sATxt)
MirrorSub(os) == Join(MirrorData(os), sSub)

\* the paths the EventSource reports events for
EventPaths(os) == {SrcFile(os), SrcSub(os)}
\* os.Args[2]: absent, the mirror directory, a path that does not exist
MirrorArgs == {"absent", "mirror", "missing"}
MirrorArg(os, a) == IF a = "absent" THEN EmptyStr ELSE IF a = "mirror" THEN Backup(os) ELSE NoDir(os)

hello == <<"h", "e", "l", "l", "o">>
bye == <<"b", "y", "e">>
oldData == <<"o", "l", "d", "-", "d", "a", "t", "a">>
\* what a writer may put into a watched file
Contents == {hello, bye}

(***************************************************************************)
(* String and path functions.                                              *)
(***************************************************************************)
IsPrefix(a, s) == Len(a) <= Len(s) /\ SubSeq(s, 1, Len(a)) = a

\* strings.Index(s, old): 0-based index of the first occurrence, or -1 (here Len(s))
IndexOf(s, old) ==
    LET hits == {i \in 0..(Len(s) - Len(old)) : SubSeq(s, i + 1, i + Len(old)) = old}
    IN  IF hits = {} THEN Len(s) ELSE CHOOSE i \in hits : \A j \in hits : i <= j

\* (mutant) strings.Replace(s, old, new, -1): every occurrence, left to right
RECURSIVE ReplaceAll(_, _, _)
ReplaceAll(s, old, new) ==
    LET i == IndexOf(s, old)
    IN  IF i = Len(s) THEN s
        ELSE SubSeq(s, 1, i) \o new \o ReplaceAll(SubSeq(s, i + Len(old) + 1, Len(s)), old, new)

\* strings.Replace(s, old, new, 1) for a non-empty old
ReplaceFirst(s, old, new) ==
    LET i == IndexOf(s, old)
    IN  IF i = Len(s) THEN s
        ELSE SubSeq(s, 1, i) \o new \o SubSeq(s, i + Len(old) + 1, Len(s))

\* filepath.VolumeName
VolumeName(os, p) ==
    IF os = Windows /\ Len(p) >= 2 /\ p[2] = ":" THEN SubSeq(p, 1, 2) ELSE EmptyStr

\* filepath.Clean, for paths without ".", ".." and doubled separators
RECURSIVE Clean(_)
Clean(s) ==
    IF s = EmptyStr THEN <<".">>
    ELSE IF Len(s) > 1 /\ s[Len(s)] = Sep THEN Clean(SubSeq(s, 1, Len(s) - 1))
    ELSE s

\* filepath.Dir
Dir(os, p) ==
    LET vol == VolumeName(os, p)
        seps == {i \in (Len(vol) + 1)..Len(p) : p[i] = Sep}
        i == IF seps = {} THEN Len(vol) ELSE CHOOSE k \in seps : \A j \in seps : j <= k
    IN  vol \o Clean(SubSeq(p, Len(vol) + 1, i))

(***************************************************************************)
(* The filesystem.                                                         *)
(***************************************************************************)
DirNode == [kind |-> "dir", ino |-> 0]
FileNode(n) == [kind |-> "file", ino |-> n]

Exists(f, p) == p \in DOMAIN f
IsRegular(f, p) == Exists(f, p) /\ f[p].kind = "file"

\* the paths strictly below p
Below(f, p) == {q \in DOMAIN f : Len(q) > Len(p) /\ IsPrefix(p \o <<Sep>>, q)}

\* rm -r p
RemoveTree(f, p) == [q \in (DOMAIN f \ ({p} \cup Below(f, p))) |-> f[q]]

Put(f, p, node) == [q \in DOMAIN f \cup {p} |-> IF q = p THEN node ELSE f[q]]

IsDir(f, path) == Exists(f, path) /\ f[path].kind = "dir"

IsFile(f, path) == ~IsDir(f, path)

\* (mutant) os.Mkdir: the parent has to exist, the path must not
MkdirOnly(os, f, path) ==
    IF Exists(f, path) \/ ~IsDir(f, Dir(os, path))
    THEN [err |-> TRUE, fs |-> f]
    ELSE [err |-> FALSE, fs |-> Put(f, path, DirNode)]

\* os.MkdirAll: [err, fs]
RECURSIVE MkdirAll(_, _, _)
MkdirAll(os, f, path) ==
    IF Exists(f, path)
    THEN [err |-> ~IsDir(f, path), fs |-> f]
    ELSE LET parent == Dir(os, path)
             up == IF parent = path \/ parent = <<".">>
                   THEN [err |-> FALSE, fs |-> f]
                   ELSE MkdirAll(os, f, parent)
         IN  IF up.err THEN [err |-> TRUE, fs |-> f]
             ELSE IF parent # <<".">> /\ ~IsDir(up.fs, parent) THEN [err |-> TRUE, fs |-> f]
             ELSE [err |-> FALSE, fs |-> Put(up.fs, path, DirNode)]

\* the inodes in use: named by a path or held open by a running copy
Live(f, pend) ==
    {f[p].ino : p \in {q \in DOMAIN f : f[q].kind = "file"}}
        \cup {pend[i].srcFile : i \in DOMAIN pend}
        \cup {pend[i].dstFile : i \in DOMAIN pend}

\* the inode a newly created file gets
FreshIno(d) == CHOOSE n \in 1..(Cardinality(DOMAIN d) + 1) : n \notin DOMAIN d

\* inodes nobody refers to are freed
Reclaim(f, pend, d) == [n \in (DOMAIN d \cap Live(f, pend)) |-> d[n]]

(***************************************************************************)
(* init(): the mirror directory is taken only if it exists as a directory. *)
(***************************************************************************)
Variants == {"watch.go", "part_000", "part_001"}

\* the copy function of the variant: copyFile in watch.go, Copy in the parts
UsesCopyFile(v) == v = "watch.go"

initCopyDir(f, arg) == IF Len(arg) > 0 /\ IsDir(f, arg) THEN arg ELSE EmptyStr

(***************************************************************************)
(* sync / syncFile.                                                        *)
(***************************************************************************)
\* (mutant) the volume-letter replacement on every platform
MirrorPathNoBranch(os, dir, filePath) ==
    ReplaceFirst(filePath, SubSeq(filePath, 1, 2), dir)

\* newPath: the destination of filePath under the mirror directory dir
MirrorPath(os, dir, filePath) ==
    IF os = Windows
    THEN ReplaceFirst(filePath, SubSeq(filePath, 1, 2), dir)
    ELSE dir \o filePath

NoSync(f) == [err |-> FALSE, fs |-> f, sched |-> FALSE, newPath |-> EmptyStr, msg |-> ""]

\* (mutant) the guard without the look at the filesystem
MirrorOffUnchecked(f, dir) == Len(dir) = 0

\* the disabled-mirror guard of sync
MirrorOff(f, dir) == Len(dir) = 0 \/ ~IsDir(f, dir)

\* (mutant) the destination made without looking whether it exists
syncDirUnchecked(os, f, newPath) ==
    LET mk == MkdirOnly(os, MkdirAll(os, f, Dir(os, newPath)).fs, newPath)
    IN  [err |-> mk.err, fs |-> mk.fs, sched |-> FALSE, newPath |-> newPath, msg |-> ""]

\* sync on a source directory
syncDir(os, f, newPath) ==
    IF IsDir(f, newPath)
    THEN [err |-> FALSE, fs |-> f, sched |-> FALSE, newPath |-> newPath, msg |-> "dir exists"]
    ELSE LET mk == MkdirAll(os, f, newPath)
         IN  [err |-> mk.err, fs |-> mk.fs, sched |-> FALSE, newPath |-> newPath, msg |-> ""]

\* sync on anything IsFile accepts: the parent chain, then the timer
syncRegular(os, f, newPath) ==
    LET mk == MkdirAll(os, f, Dir(os, newPath))
    IN  IF mk.err
        THEN [err |-> TRUE, fs |-> mk.fs, sched |-> FALSE, newPath |-> newPath, msg |-> ""]
        ELSE [err |-> FALSE, fs |-> mk.fs, sched |-> TRUE, newPath |-> newPath,
              msg |-> "copy file from"]

\* the whole of sync(filePath): its error, the filesystem it leaves, whether it
\* called time.AfterFunc
sync(os, dir, f, filePath) ==
    IF MirrorOff(f, dir) THEN NoSync(f)
    ELSE LET newPath == MirrorPath(os, dir, filePath)
         IN  IF IsDir(f, filePath) THEN syncDir(os, f, newPath)
             ELSE IF IsFile(f, filePath) THEN syncRegular(os, f, newPath)
             ELSE [NoSync(f) EXCEPT !.newPath = newPath]

\* a timer set by time.AfterFunc, not yet fired; regular notes whether filePath
\* was a regular file when it was set, sent the bytes its copy has handed to the
\* writer of the destination so far
Timer(filePath, newPath, regular) ==
    [src |-> filePath, dst |-> newPath, pc |-> "timer",
     srcFile |-> 0, dstFile |-> 0, off |-> 0, woff |-> 0, buf |-> EmptyStr,
     regular |-> regular, sent |-> EmptyStr]

\* (mutant) the timers already set for the same file are stopped
ScheduleCoalescing(pend, t) == Append(SelectSeq(pend, LAMBDA u : u.src # t.src), t)

\* time.AfterFunc: one more timer, the others left alone
Schedule(pend, t) == Append(pend, t)

\* a step of the program as lastOp records it: the operation, the source path and
\* destination it worked on, whether it ended in an error, whether it wrote that
\* error to stderr, what it printed, and for a step of a delayed copy whether its
\* source was a regular file when sync set the timer
Op(op, path, dst, err, stderr, msg) ==
    [op |-> op, path |-> path, dst |-> dst, err |-> err, stderr |-> stderr, msg |-> msg,
     regular |-> FALSE]

Running == exit = "none"

EventKinds == {"create", "attrib", "modify", "delete", "rename"}

\* (mutant) every kind of event handed to sync
QualifiesAll(kind) == kind \in EventKinds

\* ev.IsCreate() || ev.IsAttrib()
Qualifies(kind) == kind \in {"create", "attrib"}

\* whether the event loop reports the error sync returned
ReportsSyncError(err) == err

\* case ev := <-watcher.Event
HandleEvent(path, kind) ==
    /\ Running
    /\ intr # "closed"
    /\ nLoop < MaxLoop
    /\ nLoop' = nLoop + 1
    /\ IF Qualifies(kind)
       THEN LET r == sync(goos, copyDir, fs, path)
            IN  /\ fs' = r.fs
                /\ pending' = IF r.sched
                              THEN Schedule(pending, Timer(path, r.newPath, IsRegular(fs, path)))
                              ELSE pending
                /\ lastOp' = Op("sync", path, r.newPath, r.err, ReportsSyncError(r.err), r.msg)
       ELSE /\ lastOp' = Op("event", EmptyStr, EmptyStr, FALSE, FALSE, "")
            /\ UNCHANGED <<fs, pending>>
    /\ UNCHANGED <<variant, goos, readerFrom, halt, copyDir, data, exit, intr, nEnv>>

\* (mutant) halt-on-error ignored
ErrorExitNever(h) == "none"

\* the exit status after an error of the watcher
ErrorExit(h) == IF h THEN "1" ELSE "none"

\* case err := <-watcher.Error
HandleError ==
    /\ Running
    /\ intr # "closed"
    /\ nLoop < MaxLoop
    /\ nLoop' = nLoop + 1
    /\ lastOp' = Op("watcherError", EmptyStr, EmptyStr, TRUE, TRUE, "")
    /\ exit' = ErrorExit(halt)
    /\ UNCHANGED <<variant, goos, readerFrom, halt, copyDir, fs, data, pending, intr, nEnv>>

(***************************************************************************)
(* The interrupt goroutine: <-interrupt; watcher.Close(); os.Exit(0).      *)
(***************************************************************************)
Signal ==
    /\ Running
    /\ intr = "waiting"
    /\ nEnv < MaxEnv
    /\ nEnv' = nEnv + 1
    /\ intr' = "signalled"
    /\ lastOp' = Op("signal", EmptyStr, EmptyStr, FALSE, FALSE, "")
    /\ UNCHANGED <<variant, goos, readerFrom, halt, copyDir, fs, data, pending, exit, nLoop>>

IntrClose ==
    /\ Running
    /\ intr = "signalled"
    /\ intr' = "closed"
    /\ lastOp' = Op("close", EmptyStr, EmptyStr, FALSE, FALSE, "Interrupted")
    /\ UNCHANGED <<variant, goos, readerFrom, halt, copyDir, fs, data, pending, exit, nLoop, nEnv>>

\* (mutant) the exit put off until the delayed copies are done
IntrExitAwaits ==
    /\ Running
    /\ intr = "closed"
    /\ pending = <<>>
    /\ exit' = "0"
    /\ lastOp' = Op("exit", EmptyStr, EmptyStr, FALSE, FALSE, "")
    /\ UNCHANGED <<variant, goos, readerFrom, halt, copyDir, fs, data, pending, intr, nLoop, nEnv>>

IntrExit ==
    /\ Running
    /\ intr = "closed"
    /\ exit' = "0"
    /\ lastOp' = Op("exit", EmptyStr, EmptyStr, FALSE, FALSE, "")
    /\ UNCHANGED <<variant, goos, readerFrom, halt, copyDir, fs, data, pending, intr, nLoop, nEnv>>

(***************************************************************************)
(* The delayed copy: the function given to time.AfterFunc, then copyFile   *)
(* (watch.go) or Copy (the parts), one read/write round of io.Copy a step. *)
(***************************************************************************)
RemoveAt(s, i) == SubSeq(s, 1, i - 1) \o SubSeq(s, i + 1, Len(s))

Min(a, b) == IF a <= b THEN a ELSE b

Nul == "NUL"

\* the bytes of a file after chunk is written at offset off (a hole reads as NUL)
WriteAt(content, off, chunk) ==
    LET padded == IF off > Len(content)
                  THEN content \o [k \in 1..(off - Len(content)) |-> Nul]
                  ELSE content
    IN  SubSeq(padded, 1, off) \o chunk \o SubSeq(padded, off + Len(chunk) + 1, Len(padded))

\* what opening an existing destination with the variant's flags leaves of its bytes:
\* os.OpenFile(O_WRONLY|O_CREATE) keeps them, os.Create (O_TRUNC) drops them
OpenedBytes(v, old) == IF UsesCopyFile(v) THEN old ELSE EmptyStr

\* opening the destination for writing, creating it if it is missing
OpenDst(v, os, f, d, dst) ==
    IF IsDir(f, dst) \/ ~IsDir(f, Dir(os, dst))
    THEN [err |-> TRUE, fs |-> f, data |-> d, ino |-> 0]
    ELSE IF IsRegular(f, dst)
    THEN [err |-> FALSE, fs |-> f, ino |-> f[dst].ino,
          data |-> [d EXCEPT ![f[dst].ino] = OpenedBytes(v, @)]]
    ELSE LET n == FreshIno(d)
         IN  [err |-> FALSE, fs |-> Put(f, dst, FileNode(n)), ino |-> n,
              data |-> [k \in DOMAIN d \cup {n} |-> IF k = n THEN EmptyStr ELSE d[k]]]

\* os.Open(src): the inode read from, 0 for the nil *os.File of a failed open
OpenSrc(f, src) == IF IsRegular(f, src) THEN f[src].ino ELSE 0

\* whether a failed os.Open(src) ends the copy: Copy returns the error,
\* copyFile prints it and goes on with the nil file
OpenSrcFatal(v) == ~UsesCopyFile(v)

\* the start of copyFile / Copy: both files opened, or the error
OpenFiles(v, os, f, d, src, dst) ==
    LET s == OpenSrc(f, src)
    IN  IF s = 0 /\ OpenSrcFatal(v)
        THEN [err |-> TRUE, fs |-> f, data |-> d, srcFile |-> 0, dstFile |-> 0]
        ELSE LET o == OpenDst(v, os, f, d, dst)
             IN  [err |-> o.err, fs |-> o.fs, data |-> o.data,
                  srcFile |-> IF o.err THEN 0 ELSE s, dstFile |-> o.ino]

\* the guard of the timer function: if IsFile(filePath)
FireGuard(f, src) == IsFile(f, src)

\* the function given to time.AfterFunc, up to the opening of the two files
Fire(i) ==
    /\ Running
    /\ i \in DOMAIN pending
    /\ pending[i].pc = "timer"
    /\ LET t == pending[i]
       IN  IF ~FireGuard(fs, t.src)
           THEN /\ pending' = RemoveAt(pending, i)
                /\ lastOp' = [Op("fire", t.src, t.dst, FALSE, FALSE, "skipped")
                                EXCEPT !.regular = t.regular]
                /\ UNCHANGED <<fs, data>>
           ELSE \E o \in {OpenFiles(variant, goos, fs, data, t.src, t.dst)} :
                \E pend \in {IF o.err THEN RemoveAt(pending, i)
                              ELSE [pending EXCEPT ![i] = [t EXCEPT !.pc = "copying",
                                                                   !.srcFile = o.srcFile,
                                                                   !.dstFile = o.dstFile]]} :
                    /\ pending' = pend
                    /\ fs' = o.fs
                    /\ data' = Reclaim(o.fs, pend, o.data)
                    /\ lastOp' = [Op("fire", t.src, t.dst, o.err, o.err,
                                       IF o.err THEN "open error" ELSE "opened")
                                    EXCEPT !.regular = t.regular]
    /\ UNCHANGED <<variant, goos, readerFrom, halt, copyDir, exit, intr, nLoop, nEnv>>

\* whether io.Copy hands the bytes straight to the destination file: always in Copy;
\* in copyFile, through the never flushed bufio.Writer, only when the file is an
\* io.ReaderFrom
Direct(v, rf) == ~UsesCopyFile(v) \/ rf

\* one round of io.Copy on a copy whose files are open
CopyRound(i) ==
    /\ Running
    /\ i \in DOMAIN pending
    /\ pending[i].pc = "copying"
    /\ pending[i].srcFile # 0
    /\ pending[i].off < Len(data[pending[i].srcFile])
    /\ LET t == pending[i]
           src == data[t.srcFile]
           room == IF Direct(variant, readerFrom) THEN ChunkSize
                   ELSE Min(ChunkSize, defaultBufSize - Len(t.buf))
           chunk == SubSeq(src, t.off + 1, Min(t.off + room, Len(src)))
           buffered == t.buf \o chunk
           flush == Direct(variant, readerFrom) \/ Len(buffered) = defaultBufSize
       IN  /\ data' = IF flush
                      THEN [data EXCEPT ![t.dstFile] = WriteAt(@, t.woff, buffered)]
                      ELSE data
           /\ pending' = [pending EXCEPT ![i] =
                            [t EXCEPT !.off = t.off + Len(chunk),
                                      !.sent = t.sent \o chunk,
                                      !.woff = IF flush THEN t.woff + Len(buffered) ELSE t.woff,
                                      !.buf = IF flush THEN EmptyStr ELSE buffered]]
           /\ lastOp' = Op("copy", t.src, t.dst, FALSE, FALSE, "")
    /\ UNCHANGED <<variant, goos, readerFrom, halt, copyDir, fs, exit, intr, nLoop, nEnv>>

\* the end of io.Copy (end of file, or the read error of the nil file), the deferred
\* Close calls and the report of the timer function
CopyEnd(i) ==
    /\ Running
    /\ i \in DOMAIN pending
    /\ pending[i].pc = "copying"
    /\ pending[i].srcFile # 0 => pending[i].off >= Len(data[pending[i].srcFile])
    /\ LET t == pending[i]
           failed == t.srcFile = 0
       IN  /\ pending' = RemoveAt(pending, i)
           /\ data' = Reclaim(fs, RemoveAt(pending, i), data)
           /\ lastOp' = [Op("done", t.src, t.dst, failed, failed,
                              IF failed THEN "" ELSE "file copy success")
                           EXCEPT !.regular = t.regular]
    /\ UNCHANGED <<variant, goos, readerFrom, halt, copyDir, fs, exit, intr, nLoop, nEnv>>

(***************************************************************************)
(* The environment: other processes changing the watched tree and the      *)
(* mirror tree.                                                            *)
(***************************************************************************)
\* the inodes the running copies hold open
Open(pend) == {pend[i].srcFile : i \in DOMAIN pend} \cup {pend[i].dstFile : i \in DOMAIN pend}

\* a file held open cannot be removed on the volume-letter platform
Removable(os, f, pend, p) ==
    os = Windows =>
        \A q \in {p} \cup Below(f, p) : f[q].kind = "file" => f[q].ino \notin Open(pend)

EnvOp == Op("env", EmptyStr, EmptyStr, FALSE, FALSE, "")

\* a writer creates the watched file, or rewrites it in place
EnvWrite(c) ==
    /\ Running
    /\ nEnv < MaxEnv
    /\ nEnv' = nEnv + 1
    /\ LET p == SrcFile(goos)
       IN  /\ ~IsDir(fs, p)
           /\ IF IsRegular(fs, p)
              THEN /\ data[fs[p].ino] # c
                   /\ data' = [data EXCEPT ![fs[p].ino] = c]
                   /\ fs' = fs
              ELSE LET n == FreshIno(data)
                   IN  /\ fs' = Put(fs, p, FileNode(n))
                       /\ data' = [k \in DOMAIN data \cup {n} |-> IF k = n THEN c ELSE data[k]]
    /\ lastOp' = EnvOp
    /\ UNCHANGED <<variant, goos, readerFrom, halt, copyDir, pending, exit, intr, nLoop>>

EnvMkdir ==
    /\ Running
    /\ nEnv < MaxEnv
    /\ nEnv' = nEnv + 1
    /\ ~Exists(fs, SrcSub(goos))
    /\ fs' = Put(fs, SrcSub(goos), DirNode)
    /\ lastOp' = EnvOp
    /\ UNCHANGED <<variant, goos, readerFrom, halt, copyDir, data, pending, exit, intr, nLoop>>

\* a watched file or directory, or the whole mirror directory, is removed
EnvRemove(p) ==
    /\ Running
    /\ nEnv < MaxEnv
    /\ nEnv' = nEnv + 1
    /\ Exists(fs, p)
    /\ Removable(goos, fs, pending, p)
    /\ fs' = RemoveTree(fs, p)
    /\ data' = Reclaim(RemoveTree(fs, p), pending, data)
    /\ lastOp' = EnvOp
    /\ UNCHANGED <<variant, goos, readerFrom, halt, copyDir, pending, exit, intr, nLoop>>

(***************************************************************************)
(* The initial states: the process has passed init() and main's set-up.    *)
(***************************************************************************)
Dirs(ps) == [p \in ps |-> DirNode]

MirrorStates == {"none", "empty", "stale", "blocked"}

\* the tree at start: the watch root, and the mirror directory missing, empty,
\* holding an older and longer copy of the watched file, or holding a regular
\* file where the mirrored watch root would go
InitFs(os, m) ==
    LET base == Dirs(Roots(os) \cup {WatchRoot(os)})
        b == Backup(os)
        mroot == MirrorData(os)
    IN  IF m = "none" THEN base
        ELSE IF m = "empty" THEN Put(base, b, DirNode)
        ELSE IF m = "stale"
        THEN Put(Put(Put(base, b, DirNode), mroot, DirNode),
                 MirrorFile(os), FileNode(1))
        ELSE Put(Put(base, b, DirNode), mroot, FileNode(1))

InitData(m) == IF m \in {"stale", "blocked"} THEN <<oldData>> ELSE <<>>

\* the toolchains the variant can be built with, as far as it can tell them apart
Toolchains(v) == IF UsesCopyFile(v) THEN BOOLEAN ELSE {TRUE}

InitWith(V, T, P, H, M, A) ==
    /\ variant \in V
    /\ goos \in P
    /\ readerFrom \in (Toolchains(variant) \cap T)
    /\ halt \in H
    /\ \E m \in M : /\ fs = InitFs(goos, m)
                    /\ data = InitData(m)
    /\ \E a \in A : copyDir = initCopyDir(fs, MirrorArg(goos, a))
    /\ pending = <<>>
    /\ exit = "none"
    /\ intr = "waiting"
    /\ lastOp = Op("init", EmptyStr, EmptyStr, FALSE, FALSE, "")
    /\ nLoop = 0
    /\ nEnv = 0

\* the delayed copies: every variant and toolchain, mirroring into an empty mirror
\* directory or over an older copy
Init == InitWith(Variants, BOOLEAN, {Linux}, {FALSE}, {"empty", "stale"}, {"mirror"})

\* scenario 1: root /data, an existing and empty mirror directory /backup
InitScenario ==
    InitWith({"watch.go", "part_000"}, BOOLEAN, {Linux}, {FALSE}, {"empty"}, {"mirror"})

\* sync with the mirror directory given: both platforms, the mirror directory empty
\* or blocked by a regular file
InitSync == InitWith({"watch.go"}, {TRUE}, Platforms, {FALSE}, {"empty", "blocked"}, {"mirror"})

\* sync with mirroring off from the start or switched off later: both platforms, the
\* argument absent, naming a directory that does not exist, or naming the mirror
\* directory, which is removable at run time
InitDisabled == InitWith({"watch.go"}, {TRUE}, Platforms, {FALSE}, {"none", "empty"}, MirrorArgs)

\* the event loop: halt-on-error on and off, sync succeeding and failing
InitLoop == InitWith({"watch.go"}, {TRUE}, {Linux}, BOOLEAN, {"empty", "blocked"}, {"mirror"})

Next ==
    \/ \E p \in EventPaths(goos), k \in EventKinds : HandleEvent(p, k)
    \/ HandleError
    \/ Signal
    \/ IntrClose
    \/ IntrExit
    \/ \E i \in 1..MaxLoop : Fire(i)
    \/ \E i \in 1..MaxLoop : CopyRound(i)
    \/ \E i \in 1..MaxLoop : CopyEnd(i)
    \/ \E c \in Contents : EnvWrite(c)
    \/ EnvMkdir
    \/ \E p \in EventPaths(goos) \cup {Backup(goos)} : EnvRemove(p)

Spec == Init /\ [][Next]_vars

SpecScenario == InitScenario /\ [][Next]_vars

SpecSync == InitSync /\ [][Next]_vars

SpecDisabled == InitDisabled /\ [][Next]_vars

SpecLoop == InitLoop /\ [][Next]_vars

\* the interrupt: the goroutine waiting for the signal is scheduled once the signal
\* is there, and watcher.Close() returns
InitIntr == InitWith({"part_000"}, {TRUE}, {Linux}, BOOLEAN, {"empty"}, {"mirror"})

SpecIntr == InitIntr /\ [][Next]_vars /\ WF_vars(IntrClose) /\ WF_vars(IntrExit)

\* two copies of one file at a time: the variants that copy with Copy
InitRace ==
    InitWith({"part_000", "part_001"}, {TRUE}, {Linux}, {FALSE}, {"empty"}, {"mirror"})

SpecRace == InitRace /\ [][Next]_vars

\* the timers: a timer that is due fires as long as the process runs
InitTimers == InitWith({"watch.go"}, {TRUE}, {Linux}, {FALSE}, {"empty"}, {"mirror"})

\* the timer at position i is set and the process runs: Fire(i) can be taken
TimerDue(i) == Running /\ i \in DOMAIN pending /\ pending[i].pc = "timer"

\* weak fairness of Fire(i), WF_vars(Fire(i)), with ENABLED <<Fire(i)>>_vars written
\* out as TimerDue(i)
FairFire(i) == []<>(~TimerDue(i)) \/ []<><<Fire(i)>>_vars

SpecTimers == InitTimers /\ [][Next]_vars /\ \A i \in 1..MaxLoop : FairFire(i)

(***************************************************************************)
(* The mapping alone: MirrorPath applied to every short string.            *)
(***************************************************************************)
\* the longest source path given to the mapping
MaxLen == 4

MapAlphabet == {"a", ":", Sep}

\* the strings of length n over the alphabet
Strings(n) == [1..n -> MapAlphabet]

\* filePath[0:2] needs two characters
MapInputs == UNION {Strings(n) : n \in 2..MaxLen}

MapDirs == {LBackup, WBackup, <<"a">>}

InitMap ==
    /\ variant \in Variants
    /\ goos \in Platforms
    /\ readerFrom = TRUE
    /\ halt = FALSE
    /\ fs = Dirs(Roots(goos))
    /\ data = <<>>
    /\ copyDir \in MapDirs
    /\ pending = <<>>
    /\ exit = "none"
    /\ intr = "waiting"
    /\ lastOp = Op("init", EmptyStr, EmptyStr, FALSE, FALSE, "")
    /\ nLoop = 0
    /\ nEnv = 0

\* newPath computed for filePath, as sync does before it looks at the filesystem
MapCall(filePath) ==
    /\ lastOp' = Op("map", filePath, MirrorPath(goos, copyDir, filePath), FALSE, FALSE, "")
    /\ UNCHANGED <<variant, goos, readerFrom, halt, copyDir, fs, data, pending, exit, intr,
                   nLoop, nEnv>>

NextMap == \E filePath \in MapInputs : MapCall(filePath)

SpecMap == InitMap /\ [][NextMap]_vars

(***************************************************************************)
(* ResolvePaths: the watch directories for the path arguments.             *)
(***************************************************************************)
\* the most path arguments given to one call
MaxArgs == 2

\* the order of the characters, for the lexical order of directory entries
CharOrder == <<".", "a", "b", "d", "s", "t", "u", "x">>

CharRank(c) == CHOOSE k \in 1..Len(CharOrder) : CharOrder[k] = c

\* a < b for strings
RECURSIVE StrLess(_, _)
StrLess(a, b) ==
    IF b = EmptyStr THEN FALSE
    ELSE IF a = EmptyStr THEN TRUE
    ELSE IF a[1] # b[1] THEN CharRank(a[1]) < CharRank(b[1])
    ELSE StrLess(Tail(a), Tail(b))

\* readDirNames: the entries of a directory, sorted
RECURSIVE SortPaths(_)
SortPaths(ps) ==
    IF ps = {} THEN <<>>
    ELSE LET least == CHOOSE q \in ps : \A r \in ps \ {q} : StrLess(q, r)
         IN  <<least>> \o SortPaths(ps \ {least})

readDirNames(os, f, path) == SortPaths({q \in DOMAIN f : q # path /\ Dir(os, q) = path})

\* what the walk function returns
WalkNil == "nil"
SkipDir == "SkipDir"
WalkErr == "error"

\* opts.NoRecurse as the value the walk function returns for every entry
Recurse(noRecurse) == IF noRecurse THEN SkipDir ELSE WalkNil

\* the closure walker of ResolvePaths: [resolved, ret]
walker(resolved, path, isDir, failed, recurse) ==
    IF failed THEN [resolved |-> resolved, ret |-> WalkErr]
    ELSE [resolved |-> IF isDir THEN Append(resolved, path) ELSE resolved, ret |-> recurse]

\* filepath.Walk below a path whose Lstat succeeded.  bad holds the directories
\* that cannot be listed and the files whose Lstat fails.  listFirst tells the
\* library's two orders apart: the directory is listed before the walk function
\* is called for it, or the walk function is called first and called again when
\* the listing fails.
RECURSIVE walk(_, _, _, _, _, _, _)
RECURSIVE walkNames(_, _, _, _, _, _, _)
walk(os, f, bad, listFirst, recurse, resolved, path) ==
    IF ~IsDir(f, path) THEN walker(resolved, path, FALSE, FALSE, recurse)
    ELSE IF listFirst
    THEN LET w == walker(resolved, path, TRUE, path \in bad, recurse)
         IN  IF path \in bad \/ w.ret # WalkNil THEN w
             ELSE walkNames(os, f, bad, listFirst, recurse, w.resolved,
                            readDirNames(os, f, path))
    ELSE LET w == walker(resolved, path, TRUE, FALSE, recurse)
         IN  IF w.ret = SkipDir THEN [w EXCEPT !.ret = WalkNil]
             ELSE IF w.ret # WalkNil THEN w
             ELSE IF path \in bad THEN walker(w.resolved, path, TRUE, TRUE, recurse)
             ELSE walkNames(os, f, bad, listFirst, recurse, w.resolved,
                            readDirNames(os, f, path))

\* the loop of walk over the entries of a directory
walkNames(os, f, bad, listFirst, recurse, resolved, names) ==
    IF names = <<>> THEN [resolved |-> resolved, ret |-> WalkNil]
    ELSE LET name == Head(names)
             lstatFails == ~IsDir(f, name) /\ name \in bad
             w == IF lstatFails THEN walker(resolved, name, FALSE, TRUE, recurse)
                  ELSE walk(os, f, bad, listFirst, recurse, resolved, name)
         IN  IF w.ret = WalkErr THEN w
             ELSE IF w.ret = SkipDir /\ (lstatFails \/ IsDir(f, name))
             THEN walkNames(os, f, bad, listFirst, recurse, w.resolved, Tail(names))
             ELSE IF w.ret = SkipDir THEN w
             ELSE walkNames(os, f, bad, listFirst, recurse, w.resolved, Tail(names))

\* filepath.Walk(root, walker): what it leaves in resolved, and its error
Walk(os, f, bad, listFirst, recurse, resolved, root) ==
    LET w == walk(os, f, bad, listFirst, recurse, resolved, root)
    IN  [resolved |-> w.resolved, err |-> w.ret = WalkErr]

\* (mutant) the paths resolved so far returned with the error
StatFailedPartial(resolved) == [paths |-> resolved, err |-> TRUE]

\* return nil, err
StatFailed(resolved) == [paths |-> <<>>, err |-> TRUE]

\* err = filepath.Walk(path, walker): resolved after the walk; the error is
\* assigned and not looked at
ResolveDir(os, f, bad, listFirst, noRecurse, resolved, path) ==
    Walk(os, f, bad, listFirst, Recurse(noRecurse), resolved, path).resolved

\* the loop of ResolvePaths over its arguments: [paths, err]
RECURSIVE ResolveArgs(_, _, _, _, _, _, _)
ResolveArgs(os, f, bad, listFirst, noRecurse, resolved, args) ==
    IF args = <<>> THEN [paths |-> resolved, err |-> FALSE]
    ELSE LET path == Head(args)
         IN  IF path = EmptyStr
             THEN ResolveArgs(os, f, bad, listFirst, noRecurse, resolved, Tail(args))
             ELSE IF ~Exists(f, path) THEN StatFailed(resolved)
             ELSE IF ~IsDir(f, path)
             THEN ResolveArgs(os, f, bad, listFirst, noRecurse, Append(resolved, path),
                              Tail(args))
             ELSE ResolveArgs(os, f, bad, listFirst, noRecurse,
                              ResolveDir(os, f, bad, listFirst, noRecurse, resolved, path),
                              Tail(args))

ResolvePaths(os, f, bad, listFirst, noRecurse, args) ==
    ResolveArgs(os, f, bad, listFirst, noRecurse, <<>>, args)

\* the watched trees ResolvePaths is given: below the watch root a file, two
\* directories and a directory inside the second, each there or not
LInner == Join(LData, sData)
LDeep == Join(LSub, sSub)

ResolveTrees ==
    {[p \in ({LRoot, LData} \cup ds) |-> IF p = LFile THEN FileNode(1) ELSE DirNode] :
        ds \in {d \in SUBSET {LFile, LInner, LSub, LDeep} : LDeep \in d => LSub \in d}}

\* the path arguments: none, the watch root, a file and a directory in it, a path
\* that does not exist
ResolveArgPaths == {EmptyStr, LData, LFile, LSub, LNoDir}

ArgLists == UNION {[1..n -> ResolveArgPaths] : n \in 1..MaxArgs}

\* at most one entry of the tree fails
BadSets(f) == {{}} \cup {{p} : p \in DOMAIN f \ {LRoot, LData}}

InitResolve ==
    /\ variant \in {"watch.go"}
    /\ goos = Linux
    /\ readerFrom = TRUE
    /\ halt = FALSE
    /\ fs \in ResolveTrees
    /\ data = <<>>
    /\ copyDir = EmptyStr
    /\ pending = <<>>
    /\ exit = "none"
    /\ intr = "waiting"
    /\ lastOp = Op("init", EmptyStr, EmptyStr, FALSE, FALSE, "")
    /\ nLoop = 0
    /\ nEnv = 0

\* the call of ResolvePaths in init(), with what it was given and what it returned
ResolveCall(args, noRecurse, bad, listFirst) ==
    /\ lastOp.op = "init"
    /\ LET r == ResolvePaths(goos, fs, bad, listFirst, noRecurse, args)
       IN  lastOp' = [op |-> "resolve", args |-> args, noRecurse |-> noRecurse, bad |-> bad,
                      listFirst |-> listFirst, paths |-> r.paths, err |-> r.err]
    /\ UNCHANGED <<variant, goos, readerFrom, halt, copyDir, fs, data, pending, exit, intr,
                   nLoop, nEnv>>

NextResolve ==
    \E args \in ArgLists, noRecurse \in BOOLEAN, bad \in BadSets(fs), listFirst \in BOOLEAN :
        ResolveCall(args, noRecurse, bad, listFirst)

SpecResolve == InitResolve /\ [][NextResolve]_vars

(***************************************************************************)
(* The claims.                                                             *)
(***************************************************************************)
HasContent(p, c) == IsRegular(fs, p) /\ data[fs[p].ino] = c

\* /backup/data/a.txt and /backup/a.txt
LDest == LBackup \o LFile
LFlat == Join(LBackup, sATxt)

\* scenario 1 has run to its end: on the path-rooted platform with mirror /backup,
\* the only change to the trees was the creation of /data/a.txt holding "hello",
\* the only event was the one for it, taken when the file was there, and its delayed
\* copy has reported success
Scenario1Done ==
    /\ goos = Linux /\ copyDir = LBackup
    /\ nEnv = 1 /\ nLoop = 1
    /\ lastOp.op = "done" /\ lastOp.path = LFile /\ ~lastOp.err
    /\ lastOp.regular
    /\ HasContent(LFile, hello)

C2_Expected(os, dir, p) ==
    IF os = Windows THEN dir \o SubSeq(p, 3, Len(p)) ELSE dir \o p

\* C2: the destination sync computes for a source path is mirrorDir followed by the
\* source path (path-rooted platform) or by the source path without its first two
\* characters (volume-letter platform).
C2_Mapping ==
    lastOp.op = "map" => lastOp.dst = C2_Expected(goos, copyDir, lastOp.path)

\* a volume-letter mapping of a path in which the two leading characters occur again
C2_Witness ==
    /\ lastOp.op = "map" /\ goos = Windows
    /\ lastOp.path = <<"a", ":", "a", ":">>
    /\ lastOp.dst = WBackup \o <<"a", ":">>

\* C3: a call of sync made while no mirror directory is configured, or while the
\* configured one is not an existing directory, returns no error, leaves the
\* filesystem as it was and sets no timer.
C3_DisabledIsNoOp ==
    [][(lastOp'.op = "sync" /\ (copyDir = EmptyStr \/ copyDir \notin DOMAIN fs
                                  \/ fs[copyDir].kind # "dir"))
        => (~lastOp'.err /\ fs' = fs /\ data' = data /\ pending' = pending)]_vars

\* sync was called for the watched file after the configured mirror directory had
\* been removed, and the mirror directory is still missing
C3_Witness ==
    /\ lastOp.op = "sync" /\ lastOp.path = SrcFile(goos)
    /\ copyDir = Backup(goos) /\ ~Exists(fs, copyDir)


\* C4 as stated: in every variant, a timer that fires after its source file was
\* removed creates no file and changes no file.
C4_Original ==
    [][(lastOp'.op = "fire" /\ lastOp'.regular /\ ~Exists(fs, lastOp'.path))
        => (fs' = fs /\ data' = data)]_vars

MirrorOn == copyDir # EmptyStr /\ copyDir \in DOMAIN fs /\ fs[copyDir].kind = "dir"

\* C5 as stated: an error returned by sync, or a failed delayed copy, is reported;
\* the process then goes on if halt-on-error is off and has exited with status 1
\* if it is on.
C5_Original ==
    (lastOp.op \in {"sync", "fire", "done"} /\ lastOp.err)
        => /\ lastOp.stderr
           /\ halt => exit = "1"
           /\ ~halt => exit = "none"

\* C6: an error taken from the watcher's error channel is written to stderr; the
\* process has then exited with status 1 if halt-on-error is on, and is still
\* running if it is off.
C6_WatcherError ==
    lastOp.op = "watcherError"
        => /\ lastOp.stderr
           /\ halt => exit = "1"
           /\ ~halt => exit = "none"

\* a second error taken in a row with halt-on-error off, the process still running
C6_Witness ==
    lastOp.op = "watcherError" /\ ~halt /\ nLoop = 2 /\ nEnv = 0 /\ exit = "none"

\* C7 as stated: once the interrupt was delivered, the process ends with status 0
\* and no other.
C7_Original == (intr # "waiting" /\ exit # "none") => exit = "0"

\* C7 amended: once the interrupt is delivered the process ends, whatever copies are
\* pending; it ends with status 0, after watcher.Close(), unless the event loop ends
\* it first with status 1 on a watcher error under halt-on-error; nothing is copied
\* after the end.
C7_Amended ==
    /\ [](exit = "0" => intr = "closed")
    /\ [](exit = "1" => (halt /\ lastOp.op = "watcherError"))
    /\ [][exit # "none" => (fs' = fs /\ data' = data /\ pending' = pending)]_vars
    /\ (intr = "signalled") ~> (exit # "none")

\* the process has ended with status 0 while a delayed copy was under way
C7_Witness ==
    /\ exit = "0" /\ intr = "closed"
    /\ \E i \in DOMAIN pending : pending[i].pc = "copying"

\* some path on the way to dst, or dst itself, is a regular file
BlockedBy(f, dst) ==
    \E k \in 1..Len(dst) :
        /\ k = Len(dst) \/ dst[k + 1] = Sep
        /\ SubSeq(dst, 1, k) \in DOMAIN f
        /\ f[SubSeq(dst, 1, k)].kind = "file"

\* every directory on the way from the mirror directory to dst exists
ChainExists(f, dir, dst) ==
    \A k \in Len(dir)..Len(dst) :
        (k = Len(dst) \/ dst[k + 1] = Sep)
            => (SubSeq(dst, 1, k) \in DOMAIN f /\ f[SubSeq(dst, 1, k)].kind = "dir")

\* sync is called for a source directory while mirroring is on
SyncOnDir ==
    /\ lastOp'.op = "sync"
    /\ lastOp'.path \in DOMAIN fs /\ fs[lastOp'.path].kind = "dir"
    /\ MirrorOn

\* C8: sync on a source directory with mirroring on sets no timer; it returns an
\* error exactly when a regular file is in the way of the destination, and then
\* changes nothing; otherwise, when it returns, the destination directory and the
\* directories leading to it exist and nothing that existed has changed.
C8_DirCreated ==
    [][SyncOnDir =>
        LET dst == C2_Expected(goos, copyDir, lastOp'.path)
        IN  /\ pending' = pending /\ data' = data
            /\ lastOp'.err <=> BlockedBy(fs, dst)
            /\ lastOp'.err => fs' = fs
            /\ ~lastOp'.err => /\ ChainExists(fs', copyDir, dst)
                               /\ \A q \in DOMAIN fs : q \in DOMAIN fs' /\ fs'[q] = fs[q]]_vars

\* the first call of sync, for the new directory sub, has created sub and the
\* missing directory above it in a mirror directory that was empty
C8_Witness ==
    /\ lastOp.op = "sync" /\ lastOp.path = SrcSub(goos) /\ ~lastOp.err
    /\ nLoop = 1 /\ nEnv = 1
    /\ IsDir(fs, MirrorSub(goos)) /\ ~Exists(fs, MirrorFile(goos))

\* C9: sync on a source directory whose destination directory exists returns no
\* error, sets no timer and changes nothing in the filesystem, at every call.
C9_Idempotent ==
    [][(SyncOnDir /\ C2_Expected(goos, copyDir, lastOp'.path) \in DOMAIN fs
                  /\ fs[C2_Expected(goos, copyDir, lastOp'.path)].kind = "dir")
        => (~lastOp'.err /\ pending' = pending /\ fs' = fs /\ data' = data)]_vars

\* the second call of sync for the directory sub, whose destination the first call
\* created
C9_Witness ==
    /\ lastOp.op = "sync" /\ lastOp.path = SrcSub(goos) /\ lastOp.msg = "dir exists"
    /\ nLoop = 2 /\ nEnv = 1
    /\ IsDir(fs, MirrorSub(goos)) /\ ~Exists(fs, MirrorFile(goos))

\* C10 as stated: in every variant, when the only delayed copy has reported success
\* and its source, written once before, is a regular file, the destination holds
\* exactly the bytes of the source.
C10_Original ==
    (/\ lastOp.op = "done" /\ ~lastOp.err /\ lastOp.regular
     /\ nLoop = 1 /\ nEnv = 1
     /\ IsRegular(fs, lastOp.path))
        => HasContent(lastOp.dst, data[fs[lastOp.path].ino])

\* the answer of ResolvePaths for the watch root alone
ResolvedRoot == lastOp.op = "resolve" /\ lastOp.args = <<LData>>

SeqToSet(q) == {q[i] : i \in DOMAIN q}

\* C11 as stated: for an existing directory root, ResolvePaths without recursion
\* returns the root alone, and with recursion the root and every directory below
\* it at any depth, and no regular file; the second holds the first.
C11_Original ==
    ResolvedRoot =>
        /\ ~lastOp.err
        /\ lastOp.noRecurse => lastOp.paths = <<LData>>
        /\ ~lastOp.noRecurse =>
              SeqToSet(lastOp.paths) = {LData} \cup {q \in Below(fs, LData) : IsDir(fs, q)}
        /\ LData \in SeqToSet(lastOp.paths)

\* some non-empty argument names a path that does not exist
SomeArgMissing ==
    \E i \in DOMAIN lastOp.args : lastOp.args[i] # EmptyStr /\ ~Exists(fs, lastOp.args[i])

\* C12: when a non-empty argument of ResolvePaths names a path that does not exist,
\* the call returns an error and no path at all, whatever the arguments before it
\* resolved to.
C12_NoPartial ==
    (lastOp.op = "resolve" /\ SomeArgMissing) => (lastOp.err /\ lastOp.paths = <<>>)

\* the watch root resolved, then an argument that does not exist
C12_Witness ==
    /\ lastOp.op = "resolve" /\ lastOp.args = <<LData, LNoDir>> /\ lastOp.bad = {}
    /\ IsDir(fs, LSub) /\ ~lastOp.noRecurse
    /\ lastOp.err /\ lastOp.paths = <<>>

\* C13 as stated: a timer that fires after its source file was removed skips
\* silently: it opens neither file, reports no error and changes nothing.
C13_Original ==
    [][(lastOp'.op = "fire" /\ lastOp'.regular /\ ~Exists(fs, lastOp'.path))
        => (lastOp'.msg = "skipped" /\ ~lastOp'.err /\ ~lastOp'.stderr /\ fs' = fs)]_vars

\* two copies of the watched file, set for it while it was a regular file, have
\* both written all they had to write into the file the destination names
BothWritten ==
    /\ Len(pending) = 2
    /\ \A i \in 1..2 :
          /\ pending[i].pc = "copying" /\ pending[i].regular
          /\ pending[i].src = SrcFile(goos)
          /\ pending[i].srcFile # 0
          /\ pending[i].off >= Len(data[pending[i].srcFile])
          /\ IsRegular(fs, pending[i].dst) /\ fs[pending[i].dst].ino = pending[i].dstFile

\* C14 as stated: when two delayed copies of the same file have both run, the
\* destination holds what one of them wrote (the one that fired second), never a
\* mixture of the two.
C14_Original ==
    BothWritten => \E i \in 1..2 : data[pending[i].dstFile] = pending[i].sent

\* the timers that have not fired
NTimers(pend) == Cardinality({i \in DOMAIN pend : pend[i].pc = "timer"})

\* C15: a qualifying event for a regular file, with mirroring on and the parent of
\* the destination creatable, sets exactly one new timer and leaves the timers and
\* copies there are as they are; a timer goes away only by firing, one at a fire,
\* and no step but such an event sets one; a timer that is set fires as long as the
\* process runs.
C15_Timers ==
    /\ [][(lastOp'.op = "sync" /\ IsRegular(fs, lastOp'.path) /\ MirrorOn /\ ~lastOp'.err)
            => pending' = Append(pending, Timer(lastOp'.path,
                                               C2_Expected(goos, copyDir, lastOp'.path),
                                               TRUE))]_vars
    /\ [][/\ lastOp'.op = "fire" => NTimers(pending') = NTimers(pending) - 1
          /\ lastOp'.op = "sync" => /\ NTimers(pending') >= NTimers(pending)
                                    /\ NTimers(pending') <= NTimers(pending) + 1
                                    /\ Len(pending') >= Len(pending)
          /\ lastOp'.op \notin {"fire", "sync"} => NTimers(pending') = NTimers(pending)]_vars
    /\ (NTimers(pending) > 0) ~> (NTimers(pending) = 0 \/ exit # "none")

\* the second event for the file was taken while the timer of the first was set
C15_Witness ==
    /\ lastOp.op = "sync" /\ lastOp.path = SrcFile(goos) /\ nLoop = 2
    /\ Len(pending) = 2
    /\ pending[1] = pending[2] /\ pending[1].pc = "timer" /\ pending[1].regular

OtherKinds == EventKinds \ {"create", "attrib"}

\* C16: an event that is neither a creation nor a change of attributes changes
\* neither the filesystem nor the timers and copies, and sync is called for
\* creations and changes of attributes only.
C16_OnlyCreateAttrib ==
    [][/\ \A p \in EventPaths(goos), k \in OtherKinds :
             HandleEvent(p, k) => (lastOp'.op = "event" /\ fs' = fs /\ data' = data
                                    /\ pending' = pending)
       /\ lastOp'.op = "sync" =>
             \E p \in EventPaths(goos), k \in {"create", "attrib"} : HandleEvent(p, k)]_vars

\* the copy of the watched file is still in the mirror directory after the file
\* was removed and the event for that was taken
C16_Witness ==
    /\ lastOp.op = "event" /\ nLoop = 2 /\ nEnv = 2
    /\ ~Exists(fs, SrcFile(goos))
    /\ HasContent(MirrorFile(goos), hello)

\* C17 as stated, at the step where the timer function opens the two files: from
\* the same state the three variants end with the same error or success, the same
\* tree and the same bytes in the destination.
C17_Original ==
    [][(lastOp'.op = "fire" /\ lastOp'.msg # "skipped") =>
         \A v \in Variants :
            LET o == OpenFiles(v, goos, fs, data, lastOp'.path, lastOp'.dst)
            IN  /\ o.err = lastOp'.err
                /\ o.fs = fs'
                /\ ~o.err => o.data[o.dstFile] = data'[o.dstFile]]_vars

\* C18 as stated: a failure met while the tree of an existing directory root is
\* walked makes ResolvePaths return the error.
C18_Original ==
    (ResolvedRoot /\ ~lastOp.noRecurse /\ lastOp.bad # {}) => lastOp.err

\* a path an event can carry: a cleaned path, absolute, or relative when the watch
\* root was given as a relative path
CleanedPath(p) ==
    /\ p[Len(p)] # Sep
    /\ \A i \in 1..(Len(p) - 1) : ~(p[i] = Sep /\ p[i + 1] = Sep)

RelativePath(p) == p[1] # Sep /\ \A i \in DOMAIN p : p[i] # ":"

AbsolutePath(os, p) ==
    IF os = Windows THEN Len(p) >= 3 /\ p[1] # Sep /\ p[2] = ":" /\ p[3] = Sep
    ELSE p[1] = Sep

\* C19 as stated: with an absolute mirror directory, the destination computed for
\* an event path, absolute or relative, is the mirror directory followed by a
\* separator and a remainder.
C19_Original ==
    (/\ lastOp.op = "map"
     /\ AbsolutePath(goos, copyDir)
     /\ CleanedPath(lastOp.path)
     /\ AbsolutePath(goos, lastOp.path) \/ RelativePath(lastOp.path))
        => IsPrefix(copyDir \o <<Sep>>, lastOp.dst)

\* C20 as stated: sync called for a path that does not exist creates nothing and
\* sets no timer.
C20_Original ==
    [][(lastOp'.op = "sync" /\ ~Exists(fs, lastOp'.path))
        => (fs' = fs /\ pending' = pending)]_vars

====
